---------------------------- MODULE Spec2Model ----------------------------
(***************************************************************************)
(* Model of database/docs/generate-erd.py: the fixed-layout ERD renderer.  *)
(*                                                                         *)
(* The script is a straight-line batch program: load fonts, build the      *)
(* route list, draw every relationship, every entity, every note, save.    *)
(* The canvas is modelled as the sequence of drawing primitives issued on  *)
(* the ImageDraw context.                                                  *)
(*                                                                         *)
(* Coordinates.  edge() multiplies a box extent by a float fraction, so    *)
(* coordinates are not integers.  Every fraction in the script is a        *)
(* multiple of 0.05, so all coordinates are exact in hundredths of a pixel.*)
(* A fraction f is written as the integer 100*f (0.3 -> 30) and every      *)
(* point handed to a drawing primitive is in hundredths (PX per pixel).    *)
(* box() and the positions table stay in whole pixels, as in the source.   *)
(* Binary rounding of the floats is not modelled: the script only ever     *)
(* copies a computed coordinate into a waypoint, so two coordinates are    *)
(* equal as floats exactly when they are equal as hundredths.              *)
(*                                                                         *)
(* A further specification, EcsSpec, models the container loop of          *)
(* infrastructure-v2/stacks/ecs.py (EcsServiceStack.__init__) on the task  *)
(* definition built by infrastructure-v2/config.py (load_config).  Python  *)
(* strings that the code transforms or concatenates are sequences of       *)
(* one-character strings.                                                  *)
(***************************************************************************)
EXTENDS Integers, Sequences, FiniteSets

VARIABLES
  positions,   \* the positions table: entity name -> <<x, y>>
  fontFiles,   \* environment: the TrueType files that can be loaded
  writable,    \* environment: whether the output path can be written
  font, font_bold, font_note,
  R,           \* the list returned by routes()
  pc,          \* position in the module-level code
  i,           \* index of the running for loop
  canvas,      \* draw calls issued on d, in order
  saved,       \* number of completed img.save calls
  printed,     \* the "Saved uml2.png" line was printed
  error,       \* the exception that ended the run, or "none"
  call,        \* the helper call of a single-call run, <<>> in a full run
  environ,     \* os.environ: variable name -> value, for the variables set
  prefix,      \* EcsServiceStack argument prefix
  task_definition,  \* EcsServiceStack argument task_definition
  items,       \* the (key, value) pairs the secrets loop has still to visit
  secrets,     \* the secrets dict of the container being built
  constructs,  \* constructs created in the stack by the container loop
  added        \* add_container calls made on the task definition

\* State of the ERD script and state of the stack constructor.
ecsVars == <<environ, prefix, task_definition, items, secrets, constructs,
             added>>

vars == <<positions, fontFiles, writable, font, font_bold, font_note,
          R, pc, i, canvas, saved, printed, error, call, environ, prefix,
          task_definition, items, secrets, constructs, added>>

\* No stack is being constructed (the ERD script runs on its own).
NoStack ==
  /\ environ = <<>>
  /\ prefix = <<>>
  /\ task_definition = <<>>
  /\ items = <<>>
  /\ secrets = <<>>
  /\ constructs = <<>>
  /\ added = <<>>

\* ---- Bounds ----
MaxMissing == 1
MaxNoteLines == 4

\* ---- Configuration ----
PX == 100
CANVAS_W == 3200
CANVAS_H == 2500
FONT_SIZE == 16
HEADER_FONT_SIZE == 18
NOTE_FONT_SIZE == 14
COL_W == 220
TYPE_W == 100
BOX_W == COL_W + TYPE_W
ROW_H == 24
HEADER_H == 30

BG == "#ffffff"
HEADER_GREEN == "#90ee90"
FK_PINK == "#ffcccc"
ROW_WHITE == "#f8fff8"
BORDER == "#888888"
NOTE_BG == "#ffffcc"
NOTE_BORDER == "#cccc88"
LINE_COLOR == "#555555"

Min(a, b) == IF a <= b THEN a ELSE b

\* ---- Entity definitions, layout and notes ----
entities ==
  [ Resource |->
      << <<"id", "int", FALSE>>,
         <<"toolID", "int", TRUE>>,
         <<"conversationID", "int", FALSE>>,
         <<"messageID", "int", FALSE>>,
         <<"name", "string", FALSE>>,
         <<"description", "string", FALSE>>,
         <<"metadata", "jsonb", FALSE>>,
         <<"s3Uri", "string", FALSE>>,
         <<"createdAt", "datetime", FALSE>>,
         <<"updatedAt", "datetime", FALSE>>,
         <<"MIMEType", "string", FALSE>>,
         <<"content", "string", FALSE>> >>,
    Vector |->
      << <<"id", "int", FALSE>>,
         <<"toolID", "int", TRUE>>,
         <<"resourceID", "int", FALSE>>,
         <<"order", "int", FALSE>>,
         <<"embedding", "jsonb", FALSE>>,
         <<"content", "string", FALSE>>,
         <<"createdAt", "datetime", FALSE>>,
         <<"updatedAt", "datetime", FALSE>>,
         <<"conversationID", "int", FALSE>> >>,
    Message |->
      << <<"id", "int", FALSE>>,
         <<"conversationID", "int", FALSE>>,
         <<"serialNumber", "int", FALSE>>,
         <<"role", "string", FALSE>>,
         <<"content", "jsonb", FALSE>>,
         <<"tokens", "int", FALSE>>,
         <<"createdAt", "datetime", FALSE>>,
         <<"updatedAt", "datetime", FALSE>> >>,
    Conversation |->
      << <<"id", "int", FALSE>>,
         <<"agentID", "int", FALSE>>,
         <<"userID", "int", FALSE>>,
         <<"deleted", "boolean", FALSE>>,
         <<"deletedAt", "datetime", FALSE>>,
         <<"createdAt", "datetime", FALSE>>,
         <<"updatedAt", "datetime", FALSE>>,
         <<"title", "string", FALSE>>,
         <<"latestSummarySN", "int", FALSE>> >>,
    User |->
      << <<"id", "int", FALSE>>,
         <<"firstName", "string", FALSE>>,
         <<"lastName", "string", FALSE>>,
         <<"email", "string", FALSE>>,
         <<"roleId", "int", FALSE>>,
         <<"createdAt", "datetime", FALSE>>,
         <<"updatedAt", "datetime", FALSE>>,
         <<"status", "string", FALSE>>,
         <<"apiKey", "string", FALSE>>,
         <<"budget", "float", FALSE>>,
         <<"remaining", "float", FALSE>> >>,
    Roles |->
      << <<"id", "int", FALSE>>,
         <<"name", "string", FALSE>>,
         <<"displayOrder", "int", FALSE>>,
         <<"createdAt", "datetime", FALSE>>,
         <<"updatedAt", "datetime", FALSE>> >>,
    RolePolicy |->
      << <<"roleID", "int", FALSE>>,
         <<"policyID", "int", FALSE>>,
         <<"createdAt", "datetime", FALSE>>,
         <<"updatedAt", "datetime", FALSE>> >>,
    Policy |->
      << <<"id", "int", FALSE>>,
         <<"name", "string", FALSE>>,
         <<"resource", "string", FALSE>>,
         <<"action", "string", FALSE>>,
         <<"createdAt", "datetime", FALSE>>,
         <<"updatedAt", "datetime", FALSE>> >>,
    Agent |->
      << <<"id", "int", FALSE>>,
         <<"name", "string", FALSE>>,
         <<"description", "string", FALSE>>,
         <<"promptId", "int", FALSE>>,
         <<"modelID", "int", FALSE>>,
         <<"modelParameters", "jsonb", FALSE>>,
         <<"createdAt", "datetime", FALSE>>,
         <<"updatedAt", "datetime", FALSE>>,
         <<"creatorID", "int", FALSE>> >>,
    Prompt |->
      << <<"id", "int", FALSE>>,
         <<"agentID", "int", FALSE>>,
         <<"version", "int", FALSE>>,
         <<"content", "string", FALSE>>,
         <<"createdAt", "datetime", FALSE>>,
         <<"updatedAt", "datetime", FALSE>>,
         <<"name", "string", FALSE>> >>,
    Model |->
      << <<"id", "int", FALSE>>,
         <<"name", "string", FALSE>>,
         <<"type", "string", FALSE>>,
         <<"description", "string", FALSE>>,
         <<"providerId", "int", FALSE>>,
         <<"createdAt", "datetime", FALSE>>,
         <<"updatedAt", "datetime", FALSE>>,
         <<"internalName", "string", FALSE>>,
         <<"summarizeThreshold", "int", FALSE>>,
         <<"defaultParameters", "jsonb", FALSE>>,
         <<"maxContext", "int", FALSE>>,
         <<"maxOutput", "int", FALSE>>,
         <<"maxReasoning", "int", FALSE>>,
         <<"cost1kInput", "float", FALSE>>,
         <<"cost1KOutput", "float", FALSE>>,
         <<"cost1kCacheReason", "float", FALSE>>,
         <<"cost1kCacheWrite", "float", FALSE>> >>,
    Providers |->
      << <<"id", "int", FALSE>>,
         <<"name", "string", FALSE>>,
         <<"apiKey", "string", FALSE>>,
         <<"endpoint", "string", FALSE>>,
         <<"createdAt", "datetime", FALSE>>,
         <<"updatedAt", "datetime", FALSE>> >>,
    Tool |->
      << <<"id", "int", FALSE>>,
         <<"name", "string", FALSE>>,
         <<"description", "string", FALSE>>,
         <<"type", "string", FALSE>>,
         <<"authenticationType", "string", FALSE>>,
         <<"endpoint", "string", FALSE>>,
         <<"transportType", "string", FALSE>>,
         <<"customConfig", "jsonb", FALSE>>,
         <<"createdAt", "datetime", FALSE>>,
         <<"updatedAt", "datetime", FALSE>> >>,
    UserAgent |->
      << <<"userID", "int", FALSE>>,
         <<"agentID", "int", FALSE>>,
         <<"role", "string", FALSE>>,
         <<"createdAt", "datetime", FALSE>>,
         <<"updatedAt", "datetime", FALSE>> >>,
    UserTool |->
      << <<"userID", "int", FALSE>>,
         <<"toolID", "int", FALSE>>,
         <<"credential", "jsonb", FALSE>>,
         <<"createdAt", "datetime", FALSE>>,
         <<"updatedAt", "datetime", FALSE>> >>,
    AgentTool |->
      << <<"toolID", "int", FALSE>>,
         <<"agentID", "int", FALSE>>,
         <<"createdAt", "datetime", FALSE>>,
         <<"updatedAt", "datetime", FALSE>> >>,
    Usages |->
      << <<"id", "int", FALSE>>,
         <<"type", "string", TRUE>>,
         <<"userID", "int", FALSE>>,
         <<"agentID", "int", FALSE>>,
         <<"messageID", "int", FALSE>>,
         <<"modelId", "int", FALSE>>,
         <<"inputTokens", "float", FALSE>>,
         <<"outputtokens", "float", FALSE>>,
         <<"cacheReadToken", "float", FALSE>>,
         <<"cacheWriteToken", "float", FALSE>>,
         <<"cost", "float", FALSE>>,
         <<"createdAt", "datetime", FALSE>>,
         <<"updatedAt", "datetime", FALSE>> >>,
    Sessions |->
      << <<"sid", "string", FALSE>>,
         <<"expires", "datetime", FALSE>>,
         <<"data", "string", FALSE>>,
         <<"createdAt", "datetime", FALSE>>,
         <<"updatedAt", "datetime", FALSE>> >> ]

EntityOrder ==
  << "Resource",
     "Vector",
     "Message",
     "Conversation",
     "User",
     "Roles",
     "RolePolicy",
     "Policy",
     "Agent",
     "Prompt",
     "Model",
     "Providers",
     "Tool",
     "UserAgent",
     "UserTool",
     "AgentTool",
     "Usages",
     "Sessions" >>

\* Mutant: the last entry is placed 1000 px further right.
shippedPositions_off_canvas ==
  [ Message |-> <<80, 500>>,
    Roles |-> <<80, 1050>>,
    RolePolicy |-> <<80, 1260>>,
    Policy |-> <<80, 1480>>,
    Resource |-> <<470, 30>>,
    Conversation |-> <<470, 460>>,
    User |-> <<470, 840>>,
    Vector |-> <<860, 30>>,
    Agent |-> <<860, 370>>,
    UserAgent |-> <<860, 760>>,
    UserTool |-> <<860, 940>>,
    Usages |-> <<860, 1180>>,
    Prompt |-> <<1610, 60>>,
    Model |-> <<1610, 340>>,
    AgentTool |-> <<1610, 790>>,
    Providers |-> <<2000, 60>>,
    Tool |-> <<2000, 640>>,
    Sessions |-> <<3000, 1020>> ]

\* Mutant: the key of the last entry is misspelt.
shippedPositions_misspelt ==
  [ Message |-> <<80, 500>>,
    Roles |-> <<80, 1050>>,
    RolePolicy |-> <<80, 1260>>,
    Policy |-> <<80, 1480>>,
    Resource |-> <<470, 30>>,
    Conversation |-> <<470, 460>>,
    User |-> <<470, 840>>,
    Vector |-> <<860, 30>>,
    Agent |-> <<860, 370>>,
    UserAgent |-> <<860, 760>>,
    UserTool |-> <<860, 940>>,
    Usages |-> <<860, 1180>>,
    Prompt |-> <<1610, 60>>,
    Model |-> <<1610, 340>>,
    AgentTool |-> <<1610, 790>>,
    Providers |-> <<2000, 60>>,
    Tool |-> <<2000, 640>>,
    Session |-> <<2000, 1020>> ]

\* positions, as the script defines it.
shippedPositions ==
  [ Message |-> <<80, 500>>,
    Roles |-> <<80, 1050>>,
    RolePolicy |-> <<80, 1260>>,
    Policy |-> <<80, 1480>>,
    Resource |-> <<470, 30>>,
    Conversation |-> <<470, 460>>,
    User |-> <<470, 840>>,
    Vector |-> <<860, 30>>,
    Agent |-> <<860, 370>>,
    UserAgent |-> <<860, 760>>,
    UserTool |-> <<860, 940>>,
    Usages |-> <<860, 1180>>,
    Prompt |-> <<1610, 60>>,
    Model |-> <<1610, 340>>,
    AgentTool |-> <<1610, 790>>,
    Providers |-> <<2000, 60>>,
    Tool |-> <<2000, 640>>,
    Sessions |-> <<2000, 1020>> ]

notes ==
  << <<80, 700, 310,
        << <<"r", "o", "l", "e", ":", " ", "[", "'", "s", "y", "s", "t", "e", "m", "'", ",", " ", "'", "u", "s", "e", "r", "'", ",", " ", "'", "a", "s", "s", "i", "s", "t", "a", "n", "t", "'", ",", " ", "'", "t", "o", "o", "l", "'", "]">> >> >>,
     <<470, 1130, 310,
        << <<"s", "t", "a", "t", "u", "s", ":", " ", "[", "'", "A", "c", "t", "i", "v", "e", "'", ",", " ", "'", "I", "n", "a", "c", "t", "i", "v", "e", "'", ",", " ", "'", "D", "i", "s", "a", "b", "l", "e", "d", "'", "]">> >> >>,
     <<80, 1190, 300,
        << <<"n", "a", "m", "e", ":", " ", "[", "'", "A", "d", "m", "i", "n", "'", ",", " ", "'", "S", "u", "p", "e", "r", " ", "U", "s", "e", "r", "'", ",", " ", "'", "U", "s", "e", "r", "'", "]">> >> >>,
     <<1610, 790, 310,
        << <<"t", "y", "p", "e", ":", " ", "[", "'", "c", "h", "a", "t", "'", ",", " ", "'", "e", "m", "b", "e", "d", "d", "i", "n", "g", "'", ",", " ", "'", "r", "e", "r", "a", "n", "k", "i", "n", "g", "'", "]">> >> >>,
     <<2000, 920, 240,
        << <<"t", "y", "p", "e", ":", " ", "[", "'", "M", "C", "P", "'", ",", " ", "'", "c", "u", "s", "t", "o", "m", "'", "]">> >> >>,
     <<860, 1520, 310,
        << <<"t", "y", "p", "e", ":", " ", "[", "'", "u", "s", "e", "r", "'", ",", " ", "'", "a", "g", "e", "n", "t", "'", ",", " ", "'", "g", "u", "a", "r", "d", "r", "a", "i", "l", "'", "]">> >> >>,
     <<860, 910, 280,
        << <<"r", "o", "l", "e", ":", " ", "[", "'", "a", "d", "m", "i", "n", "'", ",", " ", "'", "u", "s", "e", "r", "'", "]">> >> >>,
     <<1250, 640, 250,
        << <<"M", "o", "d", "e", "l", " ", "P", "a", "r", "a", "m", "e", "t", "e", "r", "s">>,
           <<" ", " ", "t", "e", "m", "p", "e", "r", "a", "t", "u", "r", "e">>,
           <<" ", " ", "m", "a", "x", "T", "o", "k", "e", "n">>,
           <<" ", " ", "t", "o", "p", "P">>,
           <<" ", " ", "t", "o", "p", "K">>,
           <<" ", " ", ".", ".", ".">> >> >>,
     <<2000, 1200, 290,
        << <<"C", "o", "n", "f", "i", "g", "u", "r", "a", "t", "i", "o", "n">>,
           <<" ", " ", "M", "c", "p", "T", "y", "p", "e">>,
           <<" ", " ", "e", "m", "b", "e", "d", "d", "i", "n", "g", "M", "o", "d", "e", "l", "I", "D">>,
           <<" ", " ", "r", "e", "r", "a", "n", "k", "i", "n", "g", "M", "o", "d", "e", "l", "I", "D">>,
           <<" ", " ", "c", "h", "u", "n", "k", "S", "i", "z", "e">>,
           <<" ", " ", "o", "v", "e", "r", "l", "a", "p">>,
           <<" ", " ", "r", "e", "t", "r", "i", "e", "v", "e", "T", "o", "p", "N">>,
           <<" ", " ", "r", "e", "r", "a", "n", "k", "T", "o", "p", "N">>,
           <<" ", " ", ".", ".", ".">>,
           <<>>,
           <<"M", "c", "p", "T", "y", "p", "e", ":", " ", "[", "'", "k", "n", "o", "w", "l", "e", "d", "g", "e", "b", "a", "s", "e", "'", ",">>,
           <<" ", " ", "'", "A", "P", "I", "'", ",", " ", "'", "d", "a", "t", "a", "b", "a", "s", "e", "'", "]">> >> >> >>

\* Note lines are sequences of one-character strings, so that the tests
\* draw_note makes on a line (startswith, in) can be computed.
startswith(line, c) == Len(line) >= 1 /\ line[1] = c
contains(line, c) == \E k \in 1..Len(line) : line[k] = c

\* ---- Drawing helpers ----
\* A lookup in positions raises KeyError for a missing key.
HasPosition(name) == name \in DOMAIN positions

\* Mutant: the 2 px margin is left out.
entity_h_no_margin(name) == HEADER_H + Len(entities[name]) * ROW_H

entity_h(name) == HEADER_H + Len(entities[name]) * ROW_H + 2

\* (x1, y1, x2, y2) of an entity, in pixels.
box(name) ==
  LET x == positions[name][1]
      y == positions[name][2]
  IN  <<x, y, x + BOX_W, y + entity_h(name)>>

\* Mutant: the fraction is measured from the far end of the side.
edge_from_far_end(name, side, frac) ==
  LET b == box(name)
      x1 == b[1]
      y1 == b[2]
      x2 == b[3]
      y2 == b[4]
  IN  CASE side = "L" -> <<x1 * PX, y2 * PX - (y2 - y1) * frac>>
        [] side = "R" -> <<x2 * PX, y2 * PX - (y2 - y1) * frac>>
        [] side = "T" -> <<x2 * PX - (x2 - x1) * frac, y1 * PX>>
        [] side = "B" -> <<x2 * PX - (x2 - x1) * frac, y2 * PX>>
        [] OTHER -> "None"

\* A point on an entity edge, in hundredths of a pixel; frac in hundredths.
\* A side other than L, R, T, B falls through every branch: None.
edge(name, side, frac) ==
  LET b == box(name)
      x1 == b[1]
      y1 == b[2]
      x2 == b[3]
      y2 == b[4]
  IN  CASE side = "L" -> <<x1 * PX, y1 * PX + (y2 - y1) * frac>>
        [] side = "R" -> <<x2 * PX, y1 * PX + (y2 - y1) * frac>>
        [] side = "T" -> <<x1 * PX + (x2 - x1) * frac, y1 * PX>>
        [] side = "B" -> <<x1 * PX + (x2 - x1) * frac, y2 * PX>>
        [] OTHER -> "None"

\* ---- Explicit relationship routes ----
\* Each: <<src, src_side, src_frac, tgt, tgt_side, tgt_frac, waypoints,
\*         one_dir, crow_dir>>.

\* The entities routes() itself hands to edge() while computing waypoints;
\* a missing position for one of them raises KeyError inside routes().
routesEdgeCalls ==
  {"Conversation", "Vector", "Resource", "Tool", "Message", "Agent", "Model",
   "Providers", "User", "UserTool", "AgentTool", "Usages"}

routes ==
  LET cv_s == edge("Conversation", "T", 70)
      cv_e == edge("Vector", "B", 30)
      rs == edge("Resource", "R", 5)
      re == edge("Tool", "L", 5)
      mid_y == Min(rs[2], re[2]) - 15 * PX
      vs == edge("Vector", "R", 5)
      ve == edge("Tool", "L", 15)
      mid_y2 == Min(vs[2], ve[2]) - 30 * PX
      ms == edge("Message", "T", 70)
      mre == edge("Resource", "B", 70)
      as1 == edge("Agent", "R", 35)
      ae1 == edge("Model", "L", 15)
      pb == edge("Providers", "B", 30)
      mt == edge("Model", "T", 70)
      us == edge("User", "R", 50)
      ue == edge("UserTool", "L", 30)
      ags == edge("Agent", "R", 80)
      age == edge("AgentTool", "L", 30)
      uus == edge("User", "B", 70)
      uue == edge("Usages", "L", 15)
      ab == edge("Agent", "B", 50)
      ut == edge("Usages", "T", 30)
      mus == edge("Message", "B", 50)
      mue == edge("Usages", "L", 35)
      mds == edge("Model", "B", 30)
      mde == edge("Usages", "R", 30)
  IN
  << <<"Conversation", "L", 30, "Message", "R", 30, <<>>, "H", "R">>,
     <<"Agent", "L", 15, "Conversation", "R", 15, <<>>, "H", "L">>,
     <<"Conversation", "B", 30, "User", "T", 30, <<>>, "V", "D">>,
     <<"Conversation", "T", 30, "Resource", "B", 30, <<>>, "V", "U">>,
     <<"Conversation", "T", 70, "Vector", "B", 30,
       << <<cv_s[1], cv_e[2]>> >>, "V", "U">>,
     <<"Resource", "R", 15, "Vector", "L", 15, <<>>, "H", "L">>,
     <<"Resource", "R", 5, "Tool", "L", 5,
       << <<rs[1] + 10 * PX, rs[2]>>, <<rs[1] + 10 * PX, mid_y>>,
          <<re[1] - 10 * PX, mid_y>>, <<re[1] - 10 * PX, re[2]>> >>, "H", "L">>,
     <<"Vector", "R", 5, "Tool", "L", 15,
       << <<vs[1] + 10 * PX, vs[2]>>, <<vs[1] + 10 * PX, mid_y2>>,
          <<ve[1] - 10 * PX, mid_y2>>, <<ve[1] - 10 * PX, ve[2]>> >>, "H", "L">>,
     <<"Message", "T", 70, "Resource", "B", 70,
       << <<ms[1], mre[2] + 15 * PX>>, <<mre[1], mre[2] + 15 * PX>> >>,
       "V", "U">>,
     <<"Agent", "R", 20, "Prompt", "L", 50, <<>>, "H", "L">>,
     <<"Agent", "R", 35, "Model", "L", 15,
       << <<as1[1] + 60 * PX, as1[2]>>, <<as1[1] + 60 * PX, ae1[2]>> >>,
       "H", "L">>,
     <<"User", "T", 70, "Agent", "B", 70, <<>>, "V", "U">>,
     <<"Providers", "B", 30, "Model", "T", 70,
       << <<pb[1], mt[2] - 15 * PX>>, <<mt[1], mt[2] - 15 * PX>> >>, "V", "D">>,
     <<"User", "L", 35, "Roles", "R", 30, <<>>, "H", "R">>,
     <<"Roles", "B", 50, "RolePolicy", "T", 50, <<>>, "V", "D">>,
     <<"Policy", "T", 50, "RolePolicy", "B", 50, <<>>, "V", "U">>,
     <<"User", "R", 15, "UserAgent", "L", 30, <<>>, "H", "L">>,
     <<"Agent", "B", 30, "UserAgent", "T", 30, <<>>, "V", "D">>,
     <<"User", "R", 50, "UserTool", "L", 30,
       << <<us[1] + 20 * PX, us[2]>>, <<us[1] + 20 * PX, ue[2]>> >>, "H", "L">>,
     <<"Tool", "L", 70, "UserTool", "R", 30, <<>>, "H", "R">>,
     <<"Tool", "L", 40, "AgentTool", "R", 30, <<>>, "H", "R">>,
     <<"Agent", "R", 80, "AgentTool", "L", 30,
       << <<ags[1] + 30 * PX, ags[2]>>, <<ags[1] + 30 * PX, age[2]>> >>,
       "H", "L">>,
     <<"User", "B", 70, "Usages", "L", 15, << <<uus[1], uue[2]>> >>, "V", "L">>,
     <<"Agent", "B", 50, "Usages", "T", 30,
       << <<ab[1], ut[2] - 15 * PX>>, <<ut[1], ut[2] - 15 * PX>> >>, "V", "U">>,
     <<"Message", "B", 50, "Usages", "L", 35, << <<mus[1], mue[2]>> >>,
       "V", "L">>,
     <<"Model", "B", 30, "Usages", "R", 30, << <<mds[1], mde[2]>> >>,
       "V", "R">> >>

\* ---- Canvas primitives ----
\* One record per call on the ImageDraw context.  by/part name the helper
\* and the statement that issued the call, owner the loop item it was issued
\* for; at/dir keep the arguments of the end-cap helpers.  xy is in
\* hundredths of a pixel.
DrawCall(prim, by, part, xy) ==
  [prim |-> prim, by |-> by, part |-> part, owner |-> 0, xy |-> xy,
   text |-> <<>>, font |-> <<>>, fill |-> "", outline |-> "", width |-> 0,
   at |-> <<>>, dir |-> ""]

line(by, part, p, q, fill, width) ==
  [DrawCall("line", by, part, <<p, q>>) EXCEPT !.fill = fill, !.width = width]

rectangle(by, part, x1, y1, x2, y2, fill, outline) ==
  [DrawCall("rectangle", by, part, <<x1 * PX, y1 * PX, x2 * PX, y2 * PX>>)
     EXCEPT !.fill = fill, !.outline = outline]

text(by, part, x, y, txt, fill, fnt) ==
  [DrawCall("text", by, part, <<x * PX, y * PX>>)
     EXCEPT !.text = txt, !.fill = fill, !.font = fnt]

Own(ops, k) == [j \in 1..Len(ops) |-> [ops[j] EXCEPT !.owner = k]]

draw_entity(name) ==
  LET x == positions[name][1]
      y == positions[name][2]
      cols == entities[name]
      h == entity_h(name)
      row(n) ==
        LET c == cols[n]
            ry == y + HEADER_H + (n - 1) * ROW_H
            bg == IF c[3] THEN FK_PINK ELSE ROW_WHITE
        IN  << rectangle("draw_entity", "row", x, ry, x + BOX_W, ry + ROW_H,
                         bg, BORDER),
               line("draw_entity", "divider",
                    <<(x + COL_W) * PX, ry * PX>>,
                    <<(x + COL_W) * PX, (ry + ROW_H) * PX>>, BORDER, 0),
               text("draw_entity", "col_name", x + 6, ry + 3, c[1], "black",
                    font),
               text("draw_entity", "col_type", x + COL_W + 6, ry + 3, c[2],
                    "black", font) >>
      rows == [k \in 1..(4 * Len(cols)) |->
                 row(((k - 1) \div 4) + 1)[((k - 1) % 4) + 1]]
  IN  << rectangle("draw_entity", "shadow", x + 3, y + 3, x + BOX_W + 3,
                   y + h + 3, "#dddddd", ""),
         rectangle("draw_entity", "header", x, y, x + BOX_W, y + HEADER_H,
                   HEADER_GREEN, BORDER),
         text("draw_entity", "name", x + 8, y + 5, name, "black", font_bold) >>
      \o rows
      \o << rectangle("draw_entity", "border", x, y, x + BOX_W, y + h, "",
                      BORDER) >>

\* Mutant: the background height leaves out the 12 px padding.
draw_note_no_padding(x, y, w, lines) ==
  LET h == Len(lines) * 20
      f(n) == IF n - 1 = 0 /\ ~startswith(lines[n], " ")
                 /\ ~contains(lines[n], ":") /\ ~contains(lines[n], "[")
              THEN font_bold ELSE font_note
  IN  << rectangle("draw_note", "background", x, y, x + w, y + h, NOTE_BG,
                   NOTE_BORDER) >>
      \o [n \in 1..Len(lines) |->
            text("draw_note", "line", x + 8, y + 6 + (n - 1) * 20, lines[n],
                 "#333333", f(n))]

\* Mutant: the test for a colon is left out of the font choice.
draw_note_no_colon_test(x, y, w, lines) ==
  LET h == Len(lines) * 20 + 12
      f(n) == IF n - 1 = 0 /\ ~startswith(lines[n], " ")
                 /\ ~contains(lines[n], "[")
              THEN font_bold ELSE font_note
  IN  << rectangle("draw_note", "background", x, y, x + w, y + h, NOTE_BG,
                   NOTE_BORDER) >>
      \o [n \in 1..Len(lines) |->
            text("draw_note", "line", x + 8, y + 6 + (n - 1) * 20, lines[n],
                 "#333333", f(n))]

draw_note(x, y, w, lines) ==
  LET h == Len(lines) * 20 + 12
      f(n) == IF n - 1 = 0 /\ ~startswith(lines[n], " ")
                 /\ ~contains(lines[n], ":") /\ ~contains(lines[n], "[")
              THEN font_bold ELSE font_note
  IN  << rectangle("draw_note", "background", x, y, x + w, y + h, NOTE_BG,
                   NOTE_BORDER) >>
      \o [n \in 1..Len(lines) |->
            text("draw_note", "line", x + 8, y + 6 + (n - 1) * 20, lines[n],
                 "#333333", f(n))]

\* direction: 'H' or 'V'.
draw_one_mark(x, y, direction) ==
  LET sz == 8 * PX
      mark(p, q) == [line("draw_one_mark", "one", p, q, LINE_COLOR, 2)
                       EXCEPT !.at = <<x, y>>, !.dir = direction]
  IN  IF direction = "H"
      THEN << mark(<<x, y - sz>>, <<x, y + sz>>) >>
      ELSE << mark(<<x - sz, y>>, <<x + sz, y>>) >>

\* toward: 'L','R','U','D'; any other value draws nothing.
draw_crow_foot(x, y, toward) ==
  LET sz == 10 * PX
      sp == 7 * PX
      prong(q) == [line("draw_crow_foot", "crow", <<x, y>>, q, LINE_COLOR, 2)
                     EXCEPT !.at = <<x, y>>, !.dir = toward]
  IN  CASE toward = "L" ->
             << prong(<<x + sz, y - sp>>), prong(<<x + sz, y>>),
                prong(<<x + sz, y + sp>>) >>
        [] toward = "R" ->
             << prong(<<x - sz, y - sp>>), prong(<<x - sz, y>>),
                prong(<<x - sz, y + sp>>) >>
        [] toward = "U" ->
             << prong(<<x - sp, y + sz>>), prong(<<x, y + sz>>),
                prong(<<x + sp, y + sz>>) >>
        [] toward = "D" ->
             << prong(<<x - sp, y - sz>>), prong(<<x, y - sz>>),
                prong(<<x + sp, y - sz>>) >>
        [] OTHER -> << >>

draw_ortho_line(points) ==
  [k \in 1..(Len(points) - 1) |->
     line("draw_ortho_line", "polyline", points[k], points[k + 1],
          LINE_COLOR, 1)]

\* The point list draw_relationship hands to draw_ortho_line.
points(r) ==
  <<edge(r[1], r[2], r[3])>> \o r[7] \o <<edge(r[4], r[5], r[6])>>

\* Mutant: the tick direction is taken from one_dir instead of the side.
one_mark_by_one_dir(r) ==
  LET src_side == r[2]
      one_dir == r[8]
      sp == edge(r[1], r[2], r[3])
  IN  CASE src_side = "R" -> draw_one_mark(sp[1] + 12 * PX, sp[2], one_dir)
        [] src_side = "L" -> draw_one_mark(sp[1] - 12 * PX, sp[2], one_dir)
        [] src_side = "T" -> draw_one_mark(sp[1], sp[2] - 12 * PX, one_dir)
        [] src_side = "B" -> draw_one_mark(sp[1], sp[2] + 12 * PX, one_dir)
        [] OTHER -> << >>

\* "One mark near source (12px in from edge)": the if/elif ladder of
\* draw_relationship.  Both branches of the one_dir test are written out as
\* in the source.
one_mark(r) ==
  LET src_side == r[2]
      one_dir == r[8]
      sp == edge(r[1], r[2], r[3])
  IN  IF one_dir = "H"
      THEN CASE src_side = "R" -> draw_one_mark(sp[1] + 12 * PX, sp[2], "H")
             [] src_side = "L" -> draw_one_mark(sp[1] - 12 * PX, sp[2], "H")
             [] src_side = "T" -> draw_one_mark(sp[1], sp[2] - 12 * PX, "V")
             [] src_side = "B" -> draw_one_mark(sp[1], sp[2] + 12 * PX, "V")
             [] OTHER -> << >>
      ELSE CASE src_side = "B" -> draw_one_mark(sp[1], sp[2] + 12 * PX, "V")
             [] src_side = "T" -> draw_one_mark(sp[1], sp[2] - 12 * PX, "V")
             [] src_side = "R" -> draw_one_mark(sp[1] + 12 * PX, sp[2], "H")
             [] src_side = "L" -> draw_one_mark(sp[1] - 12 * PX, sp[2], "H")
             [] OTHER -> << >>

\* Mutant: the end caps are drawn before the polyline.
draw_relationship_caps_first(r) ==
  LET tp == edge(r[4], r[5], r[6])
  IN  one_mark(r) \o draw_crow_foot(tp[1], tp[2], r[9])
        \o draw_ortho_line(points(r))

\* Mutant: the crow's foot is drawn at the source anchor.
draw_relationship_crow_at_source(r) ==
  LET sp == edge(r[1], r[2], r[3])
  IN  draw_ortho_line(points(r)) \o one_mark(r)
        \o draw_crow_foot(sp[1], sp[2], r[9])

draw_relationship(r) ==
  LET crow_dir == r[9]
      tp == edge(r[4], r[5], r[6])
  IN  draw_ortho_line(points(r)) \o one_mark(r)
        \o draw_crow_foot(tp[1], tp[2], crow_dir)

\* ---- Module-level code ----
\* An uncaught exception ends the script; nothing after it runs.
Raise(exc) ==
  /\ pc' = "error"
  /\ error' = exc

\* Mutant: the note loop is placed before the entity loop.
NextPhase_notes_first(p) ==
  CASE p = "rel" -> "note"
    [] p = "note" -> "ent"
    [] p = "ent" -> "save"

\* The statements of the main section in program order: the three loops,
\* then the save.
NextPhase(p) ==
  CASE p = "rel" -> "ent"
    [] p = "ent" -> "note"
    [] p = "note" -> "save"

\* One iteration of `for ... in seq` is done: go on with the next item, or
\* with the statement after the loop when seq is exhausted.
Advance(n) ==
  IF i < n
  THEN /\ i' = i + 1
       /\ pc' = pc
  ELSE /\ i' = 1
       /\ pc' = NextPhase(pc)

\* Mutant: only the font whose file is missing is replaced by the default.
LoadFonts_per_font_fallback ==
  /\ pc = "fonts"
  /\ font' = IF "arial.ttf" \in fontFiles
             THEN <<"arial.ttf", FONT_SIZE>> ELSE <<"load_default">>
  /\ font_bold' = IF "arialbd.ttf" \in fontFiles
                  THEN <<"arialbd.ttf", HEADER_FONT_SIZE>>
                  ELSE <<"load_default">>
  /\ font_note' = IF "arial.ttf" \in fontFiles
                  THEN <<"arial.ttf", NOTE_FONT_SIZE>> ELSE <<"load_default">>
  /\ pc' = "routes"
  /\ UNCHANGED ecsVars
  /\ UNCHANGED <<call, positions, fontFiles, writable, R, i, canvas, saved,
                 printed, error>>

\* try: three truetype loads; a bare except replaces all three fonts.
LoadFonts ==
  /\ pc = "fonts"
  /\ IF {"arial.ttf", "arialbd.ttf"} \subseteq fontFiles
     THEN /\ font' = <<"arial.ttf", FONT_SIZE>>
          /\ font_bold' = <<"arialbd.ttf", HEADER_FONT_SIZE>>
          /\ font_note' = <<"arial.ttf", NOTE_FONT_SIZE>>
     ELSE /\ font' = <<"load_default">>
          /\ font_bold' = <<"load_default">>
          /\ font_note' = <<"load_default">>
  /\ pc' = "routes"
  /\ UNCHANGED ecsVars
  /\ UNCHANGED <<call, positions, fontFiles, writable, R, i, canvas, saved, printed,
                 error>>

\* `for r in routes()`: the call that builds the list, before the first
\* iteration.
CallRoutes ==
  /\ pc = "routes"
  /\ IF routesEdgeCalls \subseteq DOMAIN positions
     THEN /\ R' = routes
          /\ i' = 1
          /\ pc' = IF Len(routes) > 0 THEN "rel" ELSE NextPhase("rel")
          /\ UNCHANGED error
     ELSE /\ Raise("KeyError")
          /\ UNCHANGED <<R, i>>
  /\ UNCHANGED ecsVars
  /\ UNCHANGED <<call, positions, fontFiles, writable, font, font_bold, font_note,
                 canvas, saved, printed>>

\* Mutant: draw_relationship builds its point list in place, inserting the
\* source anchor into the route's own waypoint list.
DrawRelationship_edits_waypoints ==
  /\ pc = "rel"
  /\ IF HasPosition(R[i][1]) /\ HasPosition(R[i][4])
     THEN /\ canvas' = canvas \o Own(draw_relationship(R[i]), i)
          /\ R' = [R EXCEPT ![i][7] = <<edge(R[i][1], R[i][2], R[i][3])>> \o @]
          /\ Advance(Len(R))
          /\ UNCHANGED error
     ELSE /\ Raise("KeyError")
          /\ UNCHANGED <<canvas, i, R>>
  /\ UNCHANGED ecsVars
  /\ UNCHANGED <<call, positions, fontFiles, writable, font, font_bold,
                 font_note, saved, printed>>

\* draw_relationship(d, *r): both edge() lookups come before the first
\* drawing call.
DrawRelationship ==
  /\ pc = "rel"
  /\ IF HasPosition(R[i][1]) /\ HasPosition(R[i][4])
     THEN /\ canvas' = canvas \o Own(draw_relationship(R[i]), i)
          /\ Advance(Len(R))
          /\ UNCHANGED error
     ELSE /\ Raise("KeyError")
          /\ UNCHANGED <<canvas, i>>
  /\ UNCHANGED ecsVars
  /\ UNCHANGED <<call, positions, fontFiles, writable, font, font_bold, font_note,
                 R, saved, printed>>

\* Mutant: the entities are iterated in another order than they are defined.
DrawEntity_reverse_order ==
  /\ pc = "ent"
  /\ LET name == EntityOrder[Len(EntityOrder) + 1 - i]
     IN  IF HasPosition(name)
         THEN /\ canvas' = canvas \o Own(draw_entity(name), i)
              /\ Advance(Len(EntityOrder))
              /\ UNCHANGED error
         ELSE /\ Raise("KeyError")
              /\ UNCHANGED <<canvas, i>>
  /\ UNCHANGED ecsVars
  /\ UNCHANGED <<call, positions, fontFiles, writable, font, font_bold,
                 font_note, R, saved, printed>>

\* Mutant: an entity without a position is skipped and the loop goes on.
DrawEntity_skip_missing ==
  /\ pc = "ent"
  /\ canvas' = IF HasPosition(EntityOrder[i])
               THEN canvas \o Own(draw_entity(EntityOrder[i]), i)
               ELSE canvas
  /\ Advance(Len(EntityOrder))
  /\ UNCHANGED ecsVars
  /\ UNCHANGED <<call, positions, fontFiles, writable, font, font_bold, font_note,
                 R, saved, printed, error>>

\* draw_entity(d, name): positions[name] is the first statement.
DrawEntity ==
  /\ pc = "ent"
  /\ IF HasPosition(EntityOrder[i])
     THEN /\ canvas' = canvas \o Own(draw_entity(EntityOrder[i]), i)
          /\ Advance(Len(EntityOrder))
          /\ UNCHANGED error
     ELSE /\ Raise("KeyError")
          /\ UNCHANGED <<canvas, i>>
  /\ UNCHANGED ecsVars
  /\ UNCHANGED <<call, positions, fontFiles, writable, font, font_bold, font_note,
                 R, saved, printed>>

DrawNote ==
  /\ pc = "note"
  /\ canvas' = canvas \o Own(draw_note(notes[i][1], notes[i][2], notes[i][3],
                                       notes[i][4]), i)
  /\ Advance(Len(notes))
  /\ UNCHANGED ecsVars
  /\ UNCHANGED <<call, positions, fontFiles, writable, font, font_bold, font_note,
                 R, saved, printed, error>>

\* Mutant: a failed save is swallowed and the script goes on.
Save_swallows_failure ==
  /\ pc = "save"
  /\ saved' = IF writable THEN saved + 1 ELSE saved
  /\ pc' = "print"
  /\ UNCHANGED ecsVars
  /\ UNCHANGED <<call, positions, fontFiles, writable, font, font_bold,
                 font_note, R, i, canvas, printed, error>>

\* img.save(path): raises when the path cannot be written.
Save ==
  /\ pc = "save"
  /\ IF writable
     THEN /\ saved' = saved + 1
          /\ pc' = "print"
          /\ UNCHANGED error
     ELSE /\ Raise("OSError")
          /\ UNCHANGED saved
  /\ UNCHANGED ecsVars
  /\ UNCHANGED <<call, positions, fontFiles, writable, font, font_bold, font_note,
                 R, i, canvas, printed>>

PrintSaved ==
  /\ pc = "print"
  /\ printed' = TRUE
  /\ pc' = "done"
  /\ UNCHANGED ecsVars
  /\ UNCHANGED <<call, positions, fontFiles, writable, font, font_bold, font_note,
                 R, i, canvas, saved, error>>

\* The tables as the script defines them, less at most MaxMissing position
\* entries (the authoring defect the error handling is about).
Init ==
  /\ \E M \in SUBSET (DOMAIN shippedPositions) :
       /\ Cardinality(M) <= MaxMissing
       /\ positions = [n \in (DOMAIN shippedPositions) \ M |->
                         shippedPositions[n]]
  /\ fontFiles \in SUBSET {"arial.ttf", "arialbd.ttf"}
  /\ writable \in BOOLEAN
  /\ font = <<>>
  /\ font_bold = <<>>
  /\ font_note = <<>>
  /\ R = <<>>
  /\ pc = "fonts"
  /\ i = 0
  /\ canvas = <<>>
  /\ saved = 0
  /\ printed = FALSE
  /\ error = "none"
  /\ call = <<>>
  /\ NoStack

Next ==
  \/ LoadFonts
  \/ CallRoutes
  \/ DrawRelationship
  \/ DrawEntity
  \/ DrawNote
  \/ Save
  \/ PrintSaved

Spec == Init /\ [][Next]_vars

\* ---- Single helper calls ----
\* A second specification applies one drawing helper to arguments drawn from
\* small sets, on a fresh canvas, with the shipped tables and with the fonts
\* either loaded or replaced by the default font.
UnitEntities == {"Message", "RolePolicy"}
UnitSides == {"L", "R", "T", "B"}
UnitFracs == {0, 15, 50, 100}
UnitNoteXY == {<<80, 700>>, <<2000, 1200>>}
UnitNoteW == {240, 310}
UnitLines ==
  { <<"a", "b">>, <<" ", "a">>, <<"a", ":">>, <<"a", "[">>, <<>> }

UnitInit ==
  /\ positions = shippedPositions
  /\ fontFiles \in {{}, {"arial.ttf", "arialbd.ttf"}}
  /\ writable = TRUE
  /\ font = IF fontFiles = {} THEN <<"load_default">>
            ELSE <<"arial.ttf", FONT_SIZE>>
  /\ font_bold = IF fontFiles = {} THEN <<"load_default">>
                 ELSE <<"arialbd.ttf", HEADER_FONT_SIZE>>
  /\ font_note = IF fontFiles = {} THEN <<"load_default">>
                 ELSE <<"arial.ttf", NOTE_FONT_SIZE>>
  /\ R = <<>>
  /\ pc = "unit"
  /\ i = 0
  /\ canvas = <<>>
  /\ saved = 0
  /\ printed = FALSE
  /\ error = "none"
  /\ call = <<>>
  /\ NoStack

\* draw_relationship(d, src, src_side, src_frac, tgt, tgt_side, tgt_frac,
\*                   [], one_dir, crow_dir)
CallDrawRelationship ==
  /\ pc = "unit"
  /\ \E src \in UnitEntities, src_side \in UnitSides, src_frac \in UnitFracs,
        tgt \in UnitEntities, tgt_side \in UnitSides, tgt_frac \in UnitFracs,
        one_dir \in {"H", "V"}, crow_dir \in {"L", "R", "U", "D"} :
       LET r == <<src, src_side, src_frac, tgt, tgt_side, tgt_frac, <<>>,
                  one_dir, crow_dir>>
       IN  /\ call' = <<"draw_relationship", r>>
           /\ canvas' = draw_relationship(r)
  /\ pc' = "returned"
  /\ UNCHANGED ecsVars
  /\ UNCHANGED <<positions, fontFiles, writable, font, font_bold, font_note,
                 R, i, saved, printed, error>>

\* draw_note(d, x, y, w, lines)
CallDrawNote ==
  /\ pc = "unit"
  /\ \E xy \in UnitNoteXY, w \in UnitNoteW,
        lines \in UNION {[1..k -> UnitLines] : k \in 0..MaxNoteLines} :
       /\ call' = <<"draw_note", xy[1], xy[2], w, lines>>
       /\ canvas' = draw_note(xy[1], xy[2], w, lines)
  /\ pc' = "returned"
  /\ UNCHANGED ecsVars
  /\ UNCHANGED <<positions, fontFiles, writable, font, font_bold, font_note,
                 R, i, saved, printed, error>>

UnitNext ==
  \/ CallDrawRelationship
  \/ CallDrawNote

UnitSpec == UnitInit /\ [][UnitNext]_vars

\* ======================================================================
\* infrastructure-v2: config.py (load_config) and stacks/ecs.py
\* (EcsServiceStack.__init__, the container loop)
\* ======================================================================
\* At most MaxEnvSet environment variables are set, or all of them are.
MaxEnvSet == 1

\* The environment variables load_config reads for the prefix and for the
\* containers' secrets.
EnvNames ==
  { "NAMESPACE", "APPLICATION", "TIER",
    "SESSION_SECRET", "OAUTH_CLIENT_ID", "OAUTH_CLIENT_SECRET",
    "OAUTH_CALLBACK_URL", "OAUTH_DISCOVERY_URL", "S3_BUCKETS",
    "EMAIL_ADMIN", "EMAIL_DEV", "EMAIL_USER_REPORTS",
    "SMTP_HOST", "SMTP_PORT", "SMTP_USER",
    "SMTP_PASSWORD", "BRAVE_SEARCH_API_KEY", "DATA_GOV_API_KEY",
    "CONGRESS_GOV_API_KEY", "GEMINI_API_KEY" }

\* The value of a variable that is set: empty or not.
EnvValues == {<<>>, <<"v">>}

\* A value of a secrets dict: a str, or a list of str.
StrValue(s) == [list |-> FALSE, str |-> s, elems |-> <<>>]
ListValue(e) == [list |-> TRUE, str |-> <<>>, elems |-> e]

\* os.environ.get(key, default)
get_env(key, default) ==
  IF key \in DOMAIN environ THEN environ[key] ELSE default

\* f"{namespace}-{application}-{tier}"
load_config_prefix ==
  get_env("NAMESPACE", <<>>) \o <<"-">> \o get_env("APPLICATION", <<>>)
    \o <<"-">> \o get_env("TIER", <<>>)

\* A dict is the sequence of its (key, value) pairs in insertion order.
shared_secrets ==
  << <<<<"P", "G", "H", "O", "S", "T">>,
       ListValue(<<load_config_prefix, <<"h", "o", "s", "t">>>>)>>,
     <<<<"P", "G", "P", "O", "R", "T">>,
       ListValue(<<load_config_prefix, <<"p", "o", "r", "t">>>>)>>,
     <<<<"P", "G", "D", "A", "T", "A", "B", "A", "S", "E">>,
       ListValue(<<load_config_prefix, <<"d", "b", "n", "a", "m", "e">>>>)>>,
     <<<<"P", "G", "U", "S", "E", "R">>,
       ListValue(<<load_config_prefix, <<"u", "s", "e", "r", "n", "a", "m", "e">>>>)>>,
     <<<<"P", "G", "P", "A", "S", "S", "W", "O", "R", "D">>,
       ListValue(<<load_config_prefix, <<"p", "a", "s", "s", "w", "o", "r", "d">>>>)>> >>

\* load_config(): the returned prefix and tier, and of the returned config
\* the containers of config["ecs"]["taskDefinition"] with their name and
\* secrets.
load_config ==
  LET tier == get_env("TIER", <<>>)
  IN  [prefix |-> load_config_prefix,
       tier |-> tier,
       taskDefinition |->
         [containers |->
            << [name |-> <<"m", "a", "i", "n">>,
                secrets |->
                  << <<<<"T", "I", "E", "R">>,
                       StrValue(tier)>>,
                     <<<<"S", "E", "S", "S", "I", "O", "N", "_", "S", "E", "C", "R", "E", "T">>,
                       StrValue(get_env("SESSION_SECRET", <<>>))>>,
                     <<<<"O", "A", "U", "T", "H", "_", "C", "L", "I", "E", "N", "T", "_", "I", "D">>,
                       StrValue(get_env("OAUTH_CLIENT_ID", <<>>))>>,
                     <<<<"O", "A", "U", "T", "H", "_", "C", "L", "I", "E", "N", "T", "_", "S", "E", "C", "R", "E", "T">>,
                       StrValue(get_env("OAUTH_CLIENT_SECRET", <<>>))>>,
                     <<<<"O", "A", "U", "T", "H", "_", "C", "A", "L", "L", "B", "A", "C", "K", "_", "U", "R", "L">>,
                       StrValue(get_env("OAUTH_CALLBACK_URL", <<>>))>>,
                     <<<<"O", "A", "U", "T", "H", "_", "D", "I", "S", "C", "O", "V", "E", "R", "Y", "_", "U", "R", "L">>,
                       StrValue(get_env("OAUTH_DISCOVERY_URL", <<>>))>> >>
                \o
                  shared_secrets
                \o
                  << <<<<"S", "3", "_", "B", "U", "C", "K", "E", "T", "S">>,
                       StrValue(get_env("S3_BUCKETS", <<"r", "h", "-", "e", "a", "g", "l", "e">>))>>,
                     <<<<"E", "M", "A", "I", "L", "_", "A", "D", "M", "I", "N">>,
                       StrValue(get_env("EMAIL_ADMIN", <<>>))>>,
                     <<<<"E", "M", "A", "I", "L", "_", "D", "E", "V">>,
                       StrValue(get_env("EMAIL_DEV", <<>>))>>,
                     <<<<"E", "M", "A", "I", "L", "_", "U", "S", "E", "R", "_", "R", "E", "P", "O", "R", "T", "S">>,
                       StrValue(get_env("EMAIL_USER_REPORTS", <<>>))>>,
                     <<<<"S", "M", "T", "P", "_", "H", "O", "S", "T">>,
                       StrValue(get_env("SMTP_HOST", <<>>))>>,
                     <<<<"S", "M", "T", "P", "_", "P", "O", "R", "T">>,
                       StrValue(get_env("SMTP_PORT", <<>>))>>,
                     <<<<"S", "M", "T", "P", "_", "U", "S", "E", "R">>,
                       StrValue(get_env("SMTP_USER", <<>>))>>,
                     <<<<"S", "M", "T", "P", "_", "P", "A", "S", "S", "W", "O", "R", "D">>,
                       StrValue(get_env("SMTP_PASSWORD", <<>>))>>,
                     <<<<"B", "R", "A", "V", "E", "_", "S", "E", "A", "R", "C", "H", "_", "A", "P", "I", "_", "K", "E", "Y">>,
                       StrValue(get_env("BRAVE_SEARCH_API_KEY", <<>>))>>,
                     <<<<"D", "A", "T", "A", "_", "G", "O", "V", "_", "A", "P", "I", "_", "K", "E", "Y">>,
                       StrValue(get_env("DATA_GOV_API_KEY", <<>>))>>,
                     <<<<"C", "O", "N", "G", "R", "E", "S", "S", "_", "G", "O", "V", "_", "A", "P", "I", "_", "K", "E", "Y">>,
                       StrValue(get_env("CONGRESS_GOV_API_KEY", <<>>))>> >>],
               [name |-> <<"g", "a", "t", "e", "w", "a", "y">>,
                secrets |->
                  shared_secrets
                  \o << <<<<"G", "E", "M", "I", "N", "I", "_", "A", "P", "I", "_", "K", "E", "Y">>,
                          StrValue(get_env("GEMINI_API_KEY", <<>>))>> >>],
               [name |-> <<"c", "m", "s">>,
                secrets |-> shared_secrets] >>]]

\* ---- stacks/ecs.py ----
UpperCase == <<"A", "B", "C", "D", "E", "F", "G", "H", "I", "J", "K", "L", "M", "N", "O", "P", "Q", "R", "S", "T", "U", "V", "W", "X", "Y", "Z">>
LowerCase == <<"a", "b", "c", "d", "e", "f", "g", "h", "i", "j", "k", "l", "m", "n", "o", "p", "q", "r", "s", "t", "u", "v", "w", "x", "y", "z">>

\* str.lower() and str.replace(old, new) for one-character old and new.
lower(s) ==
  [k \in 1..Len(s) |->
     IF \E n \in 1..26 : UpperCase[n] = s[k]
     THEN LowerCase[CHOOSE n \in 1..26 : UpperCase[n] = s[k]]
     ELSE s[k]]

replace(s, old, new) == [k \in 1..Len(s) |-> IF s[k] = old THEN new ELSE s[k]]

\* param_key.lower().replace("_", "-")
parameter_label(param_key) == replace(lower(param_key), "_", "-")

\* Mutant: the construct id leaves out the container name.
secret_id_without_container(name, label) ==
  <<"s", "e", "c", "r", "e", "t", "-">> \o label

\* f"secret-{container_props['name']}-{parameter_label}"
secret_id(name, label) ==
  <<"s", "e", "c", "r", "e", "t", "-">> \o name \o <<"-">> \o label

\* f"/{prefix}/{container_props['name']}/{parameter_label}"
parameter_name(name, label) ==
  <<"/">> \o prefix \o <<"/">> \o name \o <<"/">> \o label

\* d[key] = value on a dict kept as a sequence of pairs.
setitem(d, key, value) ==
  IF \E k \in 1..Len(d) : d[k][1] = key
  THEN [k \in 1..Len(d) |-> IF d[k][1] = key THEN <<key, value>> ELSE d[k]]
  ELSE Append(d, <<key, value>>)

\* task_definition.get("containers", [])
containers ==
  IF "containers" \in DOMAIN task_definition
  THEN task_definition.containers
  ELSE <<>>

\* The container of the running iteration (enumerate counts from 0).
container_props == containers[i + 1]

\* for i, container_props in enumerate(containers): secrets = {} and the
\* secrets loop is entered, over no item when the container has no secrets.
BeginContainer ==
  /\ pc = "containers"
  /\ i < Len(containers)
  /\ secrets' = <<>>
  /\ items' = IF "secrets" \in DOMAIN container_props
              THEN container_props.secrets
              ELSE <<>>
  /\ pc' = "secrets"
  /\ UNCHANGED <<environ, prefix, task_definition, constructs, added>>
  /\ UNCHANGED <<call, positions, fontFiles, writable, font, font_bold,
                 font_note, R, i, canvas, saved, printed, error>>

\* One iteration of `for param_key, string_value in
\* container_props["secrets"].items()`.
SecretItem ==
  /\ pc = "secrets"
  /\ items # <<>>
  /\ LET param_key == Head(items)[1]
         string_value == Head(items)[2]
         label == parameter_label(param_key)
         id == secret_id(container_props.name, label)
     IN  IF string_value.list
         THEN IF Len(string_value.elems) # 2
              THEN /\ Raise("ValueError")
                   /\ UNCHANGED <<items, secrets, constructs>>
              ELSE /\ constructs' =
                        Append(constructs,
                               [id |-> id,
                                type |-> "secretsmanager.Secret",
                                secret_name |-> string_value.elems[1],
                                parameter_name |-> <<>>,
                                string_value |-> <<>>])
                   /\ secrets' =
                        setitem(secrets, param_key,
                                [from |-> "secrets_manager", construct |-> id,
                                 field |-> string_value.elems[2]])
                   /\ items' = Tail(items)
                   /\ UNCHANGED <<pc, error>>
         ELSE IF string_value.str # <<>>
              THEN /\ constructs' =
                        Append(constructs,
                               [id |-> id,
                                type |-> "ssm.StringParameter",
                                secret_name |-> <<>>,
                                parameter_name |->
                                  parameter_name(container_props.name, label),
                                string_value |-> string_value.str])
                   /\ secrets' =
                        setitem(secrets, param_key,
                                [from |-> "ssm_parameter", construct |-> id,
                                 field |-> <<>>])
                   /\ items' = Tail(items)
                   /\ UNCHANGED <<pc, error>>
              ELSE /\ items' = Tail(items)
                   /\ UNCHANGED <<secrets, constructs, pc, error>>
  /\ UNCHANGED <<environ, prefix, task_definition, added>>
  /\ UNCHANGED <<call, positions, fontFiles, writable, font, font_bold,
                 font_note, R, i, canvas, saved, printed>>

\* fargate_task_definition.add_container(f"container-{i}", ...,
\* container_name=container_props["name"], secrets=secrets, ...), once the
\* secrets loop is over; then the next container.
AddContainer ==
  /\ pc = "secrets"
  /\ items = <<>>
  /\ added' = Append(added, [id |-> <<"container-", i>>,
                             container_name |-> container_props.name,
                             secrets |-> secrets])
  /\ i' = i + 1
  /\ pc' = "containers"
  /\ UNCHANGED <<environ, prefix, task_definition, items, secrets, constructs>>
  /\ UNCHANGED <<call, positions, fontFiles, writable, font, font_bold,
                 font_note, R, canvas, saved, printed, error>>

\* The container loop is over; the constructor goes on with the service.
EndContainers ==
  /\ pc = "containers"
  /\ i = Len(containers)
  /\ pc' = "service"
  /\ UNCHANGED ecsVars
  /\ UNCHANGED <<call, positions, fontFiles, writable, font, font_bold,
                 font_note, R, i, canvas, saved, printed, error>>

\* ---- The stack constructor on its inputs ----
RECURSIVE SetsUpTo(_)
\* The sets of at most k environment variables.
SetsUpTo(k) ==
  IF k = 0 THEN {{}}
  ELSE LET P == SetsUpTo(k - 1)
       IN  P \cup {p \cup {n} : p \in P, n \in EnvNames}

Environs ==
  UNION {[D -> EnvValues] : D \in SetsUpTo(MaxEnvSet)}
    \cup {[n \in EnvNames |-> <<"v">>]}

\* Task definitions other than the one of load_config: no "containers" key,
\* a container without "secrets", keys in mixed case and with a hyphen, an
\* empty value, and a list that is not a pair.
OtherTaskDefinitions ==
  { [cpu |-> 1024],
    [containers |->
       << [name |-> <<"w", "e", "b">>],
          [name |-> <<"a", "p", "i">>,
           secrets |->
             << <<<<"A", "p", "i", "_", "K", "e", "y">>, StrValue(<<"k">>)>>,
                <<<<"d", "b", "-", "u", "r", "l">>, ListValue(<<<<"d", "b">>, <<"u", "r", "l">>>>)>>,
                <<<<"U", "N", "S", "E", "T">>, StrValue(<<>>)>> >>] >>],
    [containers |->
       << [name |-> <<"j", "o", "b">>,
           secrets |->
             << <<<<"T", "O", "K", "E", "N">>, ListValue(<<<<"v", "a", "u", "l", "t">>>>)>> >>] >>] }

\* EcsServiceStack(..., prefix=prefix, task_definition=...) is constructed
\* with the prefix and the task definition of load_config() under some
\* environment, or with another task definition, and is about to enter the
\* container loop.
EcsInit ==
  /\ \/ /\ environ \in Environs
        /\ prefix = load_config.prefix
        /\ task_definition = load_config.taskDefinition
     \/ /\ environ = <<>>
        /\ prefix = <<"p">>
        /\ task_definition \in OtherTaskDefinitions
  /\ items = <<>>
  /\ secrets = <<>>
  /\ constructs = <<>>
  /\ added = <<>>
  /\ pc = "containers"
  /\ i = 0
  /\ error = "none"
  /\ positions = shippedPositions
  /\ fontFiles = {}
  /\ writable = TRUE
  /\ font = <<>>
  /\ font_bold = <<>>
  /\ font_note = <<>>
  /\ R = <<>>
  /\ canvas = <<>>
  /\ saved = 0
  /\ printed = FALSE
  /\ call = <<>>

EcsNext ==
  \/ BeginContainer
  \/ SecretItem
  \/ AddContainer
  \/ EndContainers

EcsSpec == EcsInit /\ [][EcsNext]_vars

\* ======================================================================
\* Properties
\* ======================================================================
Max(a, b) == IF a >= b THEN a ELSE b

Names(s) == {s[k] : k \in 1..Len(s)}

\* Both ends of route r can be resolved by edge().
Routable(r) == HasPosition(r[1]) /\ HasPosition(r[4])

\* The routes that have been drawn: every route has at least one polyline
\* segment.
DrawnRoutes ==
  {canvas[a].owner : a \in {b \in 1..Len(canvas) :
                               canvas[b].by = "draw_ortho_line"}}

OpsOf(by, k) ==
  {a \in 1..Len(canvas) : canvas[a].by = by /\ canvas[a].owner = k}

IsRouteOp(op) ==
  op.by \in {"draw_ortho_line", "draw_one_mark", "draw_crow_foot"}

IsMark(op) == op.by \in {"draw_one_mark", "draw_crow_foot"}

Segments(pts) == [k \in 1..(Len(pts) - 1) |-> <<pts[k], pts[k + 1]>>]

\* Every coordinate is a multiple of 0.2 px: box extents are 320 and
\* 32 + 24n pixels and fractions are multiples of 0.05.  Products of
\* coordinate differences are taken in units of 0.2 px so that they stay
\* within the range of the checker's integers.
U(v) == v \div 20

Cross(o, a, b) ==
  (U(a[1]) - U(o[1])) * (U(b[2]) - U(o[2]))
    - (U(a[2]) - U(o[2])) * (U(b[1]) - U(o[1]))

\* Segments s and t lie on one line and share a stretch of positive length.
SegOverlap(s, t) ==
  /\ s[1] # s[2]
  /\ t[1] # t[2]
  /\ Cross(s[1], s[2], t[1]) = 0
  /\ Cross(s[1], s[2], t[2]) = 0
  /\ LET ax == IF s[1][1] # s[2][1] THEN 1 ELSE 2
     IN  Max(Min(s[1][ax], s[2][ax]), Min(t[1][ax], t[2][ax]))
           < Min(Max(s[1][ax], s[2][ax]), Max(t[1][ax], t[2][ax]))

\* Fractions <<n, d>> with d > 0.
FracLess(f, g) == f[1] * g[2] < g[1] * f[2]

\* The open interval of parameters t for which v0 + t * dv lies strictly
\* between lo and hi, as a pair of fractions (empty when dv = 0 and v0 is
\* not strictly between).
ParamInterval(v0, dv, lo, hi) ==
  IF dv > 0 THEN << <<lo - v0, dv>>, <<hi - v0, dv>> >>
  ELSE IF dv < 0 THEN << <<v0 - hi, -dv>>, <<v0 - lo, -dv>> >>
  ELSE IF lo < v0 /\ v0 < hi THEN << <<-1, 1>>, <<2, 1>> >>
  ELSE << <<2, 1>>, <<-1, 1>> >>

\* Some point of segment s lies strictly inside the pixel box b: the
\* parameter intervals of the two axes and [0, 1] have a common point.
SegThroughBox(s, b) ==
  LET x0 == U(s[1][1])
      y0 == U(s[1][2])
      dx == U(s[2][1]) - x0
      dy == U(s[2][2]) - y0
      ix == ParamInterval(x0, dx, U(b[1] * PX), U(b[3] * PX))
      iy == ParamInterval(y0, dy, U(b[2] * PX), U(b[4] * PX))
      lows == {ix[1], iy[1]}
      highs == {ix[2], iy[2]}
  IN  /\ \A l \in lows : \A h \in highs : FracLess(l, h)
      /\ \A l \in lows : FracLess(l, <<1, 1>>)
      /\ \A h \in highs : FracLess(<<0, 1>>, h)

\* C1: for every route returned by routes(), the point sequence
\* [source anchor] + waypoints + [target anchor] handed to draw_ortho_line is
\* orthogonal: every consecutive pair of points has equal x or equal y,
\* routes with no waypoints included.
Orthogonal(pts) ==
  \A k \in 1..(Len(pts) - 1) :
    pts[k][1] = pts[k + 1][1] \/ pts[k][2] = pts[k + 1][2]

C1_RoutesOrthogonal ==
  \A k \in 1..Len(R) : Routable(R[k]) => Orthogonal(points(R[k]))

\* C2: route paths do not overlap: no segment of one route and segment of
\* another route are collinear and share a stretch of positive length.
C2_RoutesDoNotOverlap ==
  \A k \in 1..Len(R) : \A l \in (k + 1)..Len(R) :
    (Routable(R[k]) /\ Routable(R[l])) =>
      LET sk == Segments(points(R[k]))
          sl == Segments(points(R[l]))
      IN  \A a \in 1..Len(sk) : \A b \in 1..Len(sl) :
            ~SegOverlap(sk[a], sl[b])

\* C3: no segment of a route passes through the interior of the box of an
\* entity other than the route's own source and target.
C3_RoutesAvoidOtherBoxes ==
  \A k \in 1..Len(R) :
    Routable(R[k]) =>
      \A e \in (DOMAIN positions) \ {R[k][1], R[k][4]} :
        LET sk == Segments(points(R[k]))
        IN  \A a \in 1..Len(sk) : ~SegThroughBox(sk[a], box(e))

\* C4: referential integrity of the static tables: entities and positions
\* have the same key set, and the source and target of every route returned
\* by routes() belong to it.
C4_ReferentialIntegrity ==
  /\ DOMAIN entities = DOMAIN shippedPositions
  /\ Names(EntityOrder) = DOMAIN entities
  /\ \A k \in 1..Len(R) :
       /\ R[k][1] \in DOMAIN entities /\ R[k][1] \in DOMAIN shippedPositions
       /\ R[k][4] \in DOMAIN entities /\ R[k][4] \in DOMAIN shippedPositions

C4_Witness ==
  /\ Len(R) = 26
  /\ DOMAIN positions = DOMAIN entities
  /\ pc = "rel"

\* C5: when an entity named by a route or iterated by the entity loop has no
\* position, the run never reaches the save: no image is written, the run
\* does not complete, and the only state it can stop in is the fatal error.
SomePositionMissing == \E k \in 1..Len(EntityOrder) : ~HasPosition(EntityOrder[k])

C5_MissingPositionIsFatal ==
  SomePositionMissing =>
    /\ saved = 0
    /\ ~printed
    /\ pc \notin {"save", "print", "done"}
    /\ (pc = "error" => error = "KeyError")
    /\ (pc # "error" => ENABLED Next)

C5_Witness ==
  /\ SomePositionMissing
  /\ pc = "error"
  /\ error = "KeyError"
  /\ \E a \in 1..Len(canvas) : canvas[a].by = "draw_entity"

\* C6: a missing position is detected at startup: the fatal error is raised
\* before any draw operation has mutated the canvas.
C6_FailFast == error = "KeyError" => canvas = <<>>

\* C7: paint order across layers: every draw operation of a route comes
\* before every draw operation of an entity box, and every entity draw
\* operation before every note draw operation (the layer number never
\* decreases along the canvas log).
Layer(op) ==
  CASE IsRouteOp(op) -> 1
    [] op.by = "draw_entity" -> 2
    [] op.by = "draw_note" -> 3

C7_PaintOrder ==
  \A a \in 1..(Len(canvas) - 1) : Layer(canvas[a]) <= Layer(canvas[a + 1])

C7_Witness ==
  /\ pc = "save"
  /\ \E a \in 1..Len(canvas) : Layer(canvas[a]) = 1
  /\ \E a \in 1..Len(canvas) : Layer(canvas[a]) = 2
  /\ \E a \in 1..Len(canvas) : Layer(canvas[a]) = 3

\* C8 as stated: all route polylines are drawn first: no one mark or crow's
\* foot of any route is drawn before a polyline segment of any route.
C8_AllPolylinesBeforeMarks ==
  \A a \in 1..Len(canvas) :
    IsMark(canvas[a]) =>
      \A b \in (a + 1)..Len(canvas) : canvas[b].by # "draw_ortho_line"

\* C8 amended: routes are drawn one after another in list order, and within
\* one route the polyline segments come first, then its one mark, then its
\* crow's foot.
CapRank(op) ==
  CASE op.by = "draw_ortho_line" -> 1
    [] op.by = "draw_one_mark" -> 2
    [] op.by = "draw_crow_foot" -> 3

C8_PolylineBeforeOwnMarks ==
  \A a \in 1..(Len(canvas) - 1) :
    (IsRouteOp(canvas[a]) /\ IsRouteOp(canvas[a + 1])) =>
      \/ canvas[a].owner < canvas[a + 1].owner
      \/ /\ canvas[a].owner = canvas[a + 1].owner
         /\ CapRank(canvas[a]) <= CapRank(canvas[a + 1])

C8_Witness ==
  \E a \in 1..(Len(canvas) - 1) :
    /\ canvas[a].by = "draw_crow_foot"
    /\ canvas[a + 1].by = "draw_ortho_line"
    /\ canvas[a + 1].owner = canvas[a].owner + 1

\* C9 as stated: for each route the one mark is drawn at the source anchor
\* and the crow's foot at the target anchor, with the orientation given by
\* one_dir and crow_dir.
C9_MarksAtAnchors ==
  \A k \in DrawnRoutes :
    /\ Cardinality(OpsOf("draw_one_mark", k)) = 1
    /\ \A a \in OpsOf("draw_one_mark", k) :
         /\ canvas[a].at = edge(R[k][1], R[k][2], R[k][3])
         /\ canvas[a].dir = R[k][8]
    /\ Cardinality(OpsOf("draw_crow_foot", k)) = 3
    /\ \A a \in OpsOf("draw_crow_foot", k) :
         /\ canvas[a].at = edge(R[k][4], R[k][5], R[k][6])
         /\ canvas[a].dir = R[k][9]

\* C9 amended: the one mark is drawn 12 px outside the source anchor, along
\* the outward normal of src_side, as a tick across the line (direction H
\* for sides L and R, V for T and B), which for every route of routes() is
\* its one_dir; the crow's foot is drawn at the target anchor with crow_dir.
OutwardNormal(side) ==
  CASE side = "L" -> <<-1, 0>>
    [] side = "R" -> <<1, 0>>
    [] side = "T" -> <<0, -1>>
    [] side = "B" -> <<0, 1>>

SideDir(side) == IF side \in {"L", "R"} THEN "H" ELSE "V"

C9_MarksNearAnchors ==
  \A k \in DrawnRoutes :
    LET sp == edge(R[k][1], R[k][2], R[k][3])
        tp == edge(R[k][4], R[k][5], R[k][6])
        n == OutwardNormal(R[k][2])
    IN  /\ Cardinality(OpsOf("draw_one_mark", k)) = 1
        /\ \A a \in OpsOf("draw_one_mark", k) :
             /\ canvas[a].at = <<sp[1] + 12 * PX * n[1], sp[2] + 12 * PX * n[2]>>
             /\ canvas[a].dir = SideDir(R[k][2])
             /\ canvas[a].dir = R[k][8]
             /\ canvas[a].xy =
                  IF canvas[a].dir = "H"
                  THEN << <<canvas[a].at[1], canvas[a].at[2] - 8 * PX>>,
                          <<canvas[a].at[1], canvas[a].at[2] + 8 * PX>> >>
                  ELSE << <<canvas[a].at[1] - 8 * PX, canvas[a].at[2]>>,
                          <<canvas[a].at[1] + 8 * PX, canvas[a].at[2]>> >>
        /\ Cardinality(OpsOf("draw_crow_foot", k)) = 3
        /\ \A a \in OpsOf("draw_crow_foot", k) :
             /\ canvas[a].at = tp
             /\ canvas[a].dir = R[k][9]
             /\ canvas[a].xy[1] = tp

C9_Witness ==
  /\ \E a \in 1..Len(canvas) :
       /\ canvas[a].by = "draw_one_mark"
       /\ R[canvas[a].owner][2] = "T"
       /\ canvas[a].at # edge(R[canvas[a].owner][1], "T", R[canvas[a].owner][3])
  /\ \E a \in 1..Len(canvas) :
       /\ canvas[a].by = "draw_crow_foot"
       /\ canvas[a].dir = "U"

\* C10: for every entity E with n attributes positioned at (x, y),
\* box(E) = (x, y, x + 320, y + 30 + 24 n + 2), and the outer border that
\* draw_entity draws is that same rectangle.
C10_BoxHeight ==
  /\ HEADER_H = 30 /\ ROW_H = 24 /\ BOX_W = 320
  /\ \A name \in DOMAIN positions :
       LET n == Len(entities[name])
           x == positions[name][1]
           y == positions[name][2]
       IN  box(name) = <<x, y, x + 320, y + 30 + n * 24 + 2>>
  /\ \A a \in 1..Len(canvas) :
       (canvas[a].by = "draw_entity" /\ canvas[a].part = "border") =>
         LET b == box(EntityOrder[canvas[a].owner])
         IN  canvas[a].xy = <<b[1] * PX, b[2] * PX, b[3] * PX, b[4] * PX>>

C10_Witness ==
  \E a \in 1..Len(canvas) :
    /\ canvas[a].by = "draw_entity"
    /\ canvas[a].part = "border"
    /\ EntityOrder[canvas[a].owner] = "RolePolicy"
    /\ canvas[a].xy[4] - canvas[a].xy[2] = 128 * PX

\* C11: for every positioned entity e, side and fraction f in [0, 1],
\* edge(e, side, f) lies on the requested side of box(e) and is the linear
\* interpolation along it: f = 0 and f = 1 give the two corners (top then
\* bottom for L/R, left then right for T/B) and f = 0.5 the midpoint.
\* p is in hundredths of a pixel, b in pixels, f in hundredths.
OnSide(p, b, side, f) ==
  LET x1 == b[1] * PX
      y1 == b[2] * PX
      x2 == b[3] * PX
      y2 == b[4] * PX
      along == IF side \in {"L", "R"} THEN p[2] - y1 ELSE p[1] - x1
      extent == IF side \in {"L", "R"} THEN y2 - y1 ELSE x2 - x1
  IN  /\ side = "L" => p[1] = x1
      /\ side = "R" => p[1] = x2
      /\ side = "T" => p[2] = y1
      /\ side = "B" => p[2] = y2
      /\ x1 <= p[1] /\ p[1] <= x2 /\ y1 <= p[2] /\ p[2] <= y2
      /\ along * 100 = extent * f
      /\ f = 0 => along = 0
      /\ f = 100 => along = extent
      /\ f = 50 => 2 * along = extent

C11_EdgeOnPerimeter ==
  (pc = "returned" /\ call[1] = "draw_relationship") =>
    LET r == call[2]
        seg == canvas[1].xy
    IN  /\ canvas[1].by = "draw_ortho_line"
        /\ seg[1] = edge(r[1], r[2], r[3])
        /\ seg[2] = edge(r[4], r[5], r[6])
        /\ OnSide(seg[1], box(r[1]), r[2], r[3])
        /\ OnSide(seg[2], box(r[4]), r[5], r[6])

C11_Witness ==
  /\ pc = "returned"
  /\ call[1] = "draw_relationship"
  /\ call[2][1] = "Message" /\ call[2][2] = "L" /\ call[2][3] = 50
  /\ canvas[1].xy[1] = <<80 * PX, 612 * PX>>

\* C12: with the shipped tables everything is drawn inside the canvas: every
\* coordinate of every draw call (entity boxes with their shadows, note
\* rectangles, polyline points, end-cap end points, text origins) has
\* 0 <= x <= CANVAS_W and 0 <= y <= CANVAS_H.
InCanvas(p) ==
  /\ 0 <= p[1] /\ p[1] <= CANVAS_W * PX
  /\ 0 <= p[2] /\ p[2] <= CANVAS_H * PX

OpInCanvas(op) ==
  CASE op.prim = "line" -> InCanvas(op.xy[1]) /\ InCanvas(op.xy[2])
    [] op.prim = "rectangle" ->
         InCanvas(<<op.xy[1], op.xy[2]>>) /\ InCanvas(<<op.xy[3], op.xy[4]>>)
    [] op.prim = "text" -> InCanvas(op.xy)

C12_InsideCanvas ==
  /\ CANVAS_W = 3200 /\ CANVAS_H = 2500
  /\ \A a \in 1..Len(canvas) : OpInCanvas(canvas[a])

C12_Witness ==
  /\ pc = "done"
  /\ \E a \in 1..Len(canvas) :
       /\ canvas[a].part = "shadow"
       /\ canvas[a].xy[3] = 2323 * PX
  /\ \E a \in 1..Len(canvas) :
       /\ canvas[a].by = "draw_ortho_line"
       /\ canvas[a].xy[1][2] = 1240

\* C13: the canvas is the only table-like state a run mutates: no step
\* changes positions, and once routes() has returned no step changes the
\* route list, so at the save both are what they were at the start (entities
\* and notes are never assigned by the script and are constants here).
C13_TablesUnchanged ==
  /\ [](pc = "save" => R = routes)
  /\ [][/\ positions' = positions
        /\ (pc \notin {"fonts", "routes"} => R' = R)]_vars

C13_Witness ==
  /\ pc = "save"
  /\ positions = shippedPositions
  /\ R = routes
  /\ Len(canvas) > Len(R)

\* C14: the image is saved exactly once per successful run, only after every
\* route, entity and note has been drawn, and no draw call follows the save;
\* a failed save ends the run in a fatal error, with no retry and without
\* the success message.
AllDrawn ==
  /\ Len(R) = Len(routes)
  /\ \A k \in 1..Len(R) : OpsOf("draw_ortho_line", k) # {}
  /\ \A k \in 1..Len(EntityOrder) :
       \E a \in OpsOf("draw_entity", k) : canvas[a].part = "border"
  /\ \A k \in 1..Len(notes) : OpsOf("draw_note", k) # {}

C14_SaveOnceAtEnd ==
  /\ [](/\ saved <= 1
        /\ (pc = "save" => saved = 0 /\ AllDrawn)
        /\ (saved = 1 => pc \in {"print", "done"} /\ AllDrawn)
        /\ (printed => saved = 1)
        /\ (pc = "done" => saved = 1 /\ printed)
        /\ (error = "OSError" =>
              /\ ~writable
              /\ saved = 0
              /\ ~printed
              /\ pc = "error"
              /\ ~ENABLED Next))
  /\ [][/\ (saved >= 1 => canvas' = canvas /\ saved' = saved)
        /\ (saved' # saved => pc = "save" /\ writable /\ saved' = saved + 1)]_vars

C14_Witness ==
  /\ pc = "error"
  /\ error = "OSError"
  /\ AllDrawn

\* C15: a font that cannot be loaded never fails the run: font, font_bold
\* and font_note are then all the same default font, every text is drawn
\* with it, and the run goes on through all draw calls to the save (it can
\* only stop in an error that has another cause).
FontMissing == ~({"arial.ttf", "arialbd.ttf"} \subseteq fontFiles)

C15_FontFallback ==
  FontMissing =>
    /\ (pc # "fonts" =>
          /\ font = <<"load_default">>
          /\ font_bold = font
          /\ font_note = font)
    /\ \A a \in 1..Len(canvas) :
         canvas[a].prim = "text" => canvas[a].font = <<"load_default">>
    /\ (pc = "error" =>
          \/ error = "KeyError" /\ SomePositionMissing
          \/ error = "OSError" /\ ~writable /\ AllDrawn)
    /\ (pc \notin {"error", "done"} => ENABLED Next)
    /\ (pc = "done" => AllDrawn /\ saved = 1)

C15_Witness ==
  /\ fontFiles = {"arial.ttf"}
  /\ pc = "done"
  /\ saved = 1
  /\ \E a \in 1..Len(canvas) :
       /\ canvas[a].part = "name"
       /\ canvas[a].font = <<"load_default">>

\* C16: draw_note renders line i of a note in the bold font if and only if
\* i = 0 and the line does not start with a space and contains neither ':'
\* nor '['; every other line is rendered in the regular note font.
LooksLikeTitle(l) ==
  /\ Len(l) = 0 \/ l[1] # " "
  /\ \A k \in 1..Len(l) : l[k] # ":" /\ l[k] # "["

C16_NoteBoldRule ==
  (pc = "returned" /\ call[1] = "draw_note") =>
    LET lines == call[5]
    IN  /\ Len(canvas) = Len(lines) + 1
        /\ \A n \in 1..Len(lines) :
             /\ canvas[n + 1].prim = "text"
             /\ canvas[n + 1].text = lines[n]
             /\ canvas[n + 1].font =
                  IF n = 1 /\ LooksLikeTitle(lines[n])
                  THEN font_bold ELSE font_note

C16_Witness ==
  /\ pc = "returned"
  /\ call[1] = "draw_note"
  /\ call[5] = << <<"a", "b">>, <<"a", "b">> >>
  /\ font_bold # font_note
  /\ canvas[2].font = <<"arialbd.ttf", HEADER_FONT_SIZE>>
  /\ canvas[3].font = <<"arial.ttf", NOTE_FONT_SIZE>>

\* C17: rendering is deterministic: the sequence of draw calls of a run that
\* reaches the save is a function of the tables and the fonts alone, namely
\* the calls of every route in list order, then of every entity in
\* definition order, then of every note in list order; two runs over the
\* same tables and fonts therefore issue the same calls with the same
\* arguments.
RECURSIVE ConcatAll(_)
ConcatAll(ss) == IF Len(ss) = 0 THEN <<>> ELSE Head(ss) \o ConcatAll(Tail(ss))

ExpectedCanvas ==
  ConcatAll([k \in 1..Len(routes) |-> Own(draw_relationship(routes[k]), k)])
    \o ConcatAll([k \in 1..Len(EntityOrder) |->
                    Own(draw_entity(EntityOrder[k]), k)])
    \o ConcatAll([k \in 1..Len(notes) |->
                    Own(draw_note(notes[k][1], notes[k][2], notes[k][3],
                                  notes[k][4]), k)])

C17_Deterministic ==
  pc \in {"save", "print", "done"} \/ error = "OSError" =>
    canvas = ExpectedCanvas

C17_Witness ==
  /\ pc = "done"
  /\ Len(canvas) = 840
  /\ canvas = ExpectedCanvas

\* C18: for a note of k lines drawn at (x, y) with width w, draw_note paints
\* the background rectangle [x, y, x + w, y + 20 k + 12] (height 92 for 4
\* lines) and places line i at (x + 8, y + 6 + 20 i), which lies inside the
\* background rectangle.
C18_NoteGeometry ==
  (pc = "returned" /\ call[1] = "draw_note") =>
    LET x == call[2]
        y == call[3]
        w == call[4]
        k == Len(call[5])
        bg == canvas[1]
    IN  /\ bg.prim = "rectangle"
        /\ bg.xy = <<x * PX, y * PX, (x + w) * PX, (y + 20 * k + 12) * PX>>
        /\ (k = 4 => bg.xy[4] - bg.xy[2] = 92 * PX)
        /\ Len(canvas) = k + 1
        /\ \A n \in 1..k :
             /\ canvas[n + 1].xy = <<(x + 8) * PX, (y + 6 + 20 * (n - 1)) * PX>>
             /\ bg.xy[1] < canvas[n + 1].xy[1] /\ canvas[n + 1].xy[1] < bg.xy[3]
             /\ bg.xy[2] < canvas[n + 1].xy[2] /\ canvas[n + 1].xy[2] < bg.xy[4]

C18_Witness ==
  /\ pc = "returned"
  /\ call[1] = "draw_note"
  /\ Len(call[5]) = 4
  /\ canvas[1].xy[4] - canvas[1].xy[2] = 92 * PX
  /\ canvas[5].xy[2] = canvas[1].xy[2] + 66 * PX

\* C19: for every route the crow's foot drawn at the target anchor lies
\* outside the target entity's box: no prong end point is strictly inside
\* box(tgt), so the entity boxes drawn afterwards do not paint over it.
StrictlyInside(p, b) ==
  /\ b[1] * PX < p[1] /\ p[1] < b[3] * PX
  /\ b[2] * PX < p[2] /\ p[2] < b[4] * PX

C19_CrowFootOutsideTarget ==
  \A a \in 1..Len(canvas) :
    canvas[a].by = "draw_crow_foot" =>
      ~StrictlyInside(canvas[a].xy[2], box(R[canvas[a].owner][4]))

\* C20: the one mark of draw_relationship does not depend on one_dir: for
\* fixed src, src_side and src_frac the same single draw_one_mark call is
\* issued for one_dir 'H' and 'V', at the source anchor displaced 12 px along
\* the outward normal of src_side, with a vertical tick for sides L/R and a
\* horizontal tick for sides T/B.
OneMarkCalls == SelectSeq(canvas, LAMBDA op : op.by = "draw_one_mark")

InteriorsMeet(a, b) ==
  /\ a[1] < b[3] /\ b[1] < a[3]
  /\ a[2] < b[4] /\ b[2] < a[4]

C21_NotesCoverNoEntity ==
  \A a \in 1..Len(canvas) :
    (canvas[a].by = "draw_note" /\ canvas[a].part = "background") =>
      \A b \in 1..(a - 1) :
        (canvas[b].by = "draw_entity" /\ canvas[b].part = "border") =>
          ~InteriorsMeet(canvas[a].xy, canvas[b].xy)

\* C22: in EcsServiceStack, for every container of the task definition the
\* secrets map handed to add_container contains exactly the keys of the
\* container's configured secrets whose value is a [secret_name, field] list
\* (resolved as a Secrets Manager reference to secret_name and field) or a
\* non-empty string (backed by a new SSM parameter named
\* /{prefix}/{container name}/{key lower-cased with '_' replaced by '-'});
\* keys whose value is an empty string are omitted and create no resource,
\* and the construct ids secret-{container name}-{label} created for the
\* containers of load_config() are pairwise distinct.
Configured(n) ==
  IF "secrets" \in DOMAIN containers[n] THEN containers[n].secrets ELSE <<>>

Kept(n) ==
  {k \in 1..Len(Configured(n)) :
     \/ Configured(n)[k][2].list
     \/ Configured(n)[k][2].str # <<>>}

LabelOf(key) ==
  [k \in 1..Len(key) |->
     IF key[k] = "_" THEN "-" ELSE lower(<<key[k]>>)[1]]

HandedSecrets == ConcatAll([n \in 1..Len(added) |-> added[n].secrets])

C22_SecretsOfContainers ==
  /\ \A n \in 1..Len(added) :
       LET name == containers[n].name
           conf == Configured(n)
           m == added[n].secrets
       IN  /\ added[n].container_name = name
           /\ {m[j][1] : j \in 1..Len(m)} = {conf[k][1] : k \in Kept(n)}
           /\ Len(m) = Cardinality(Kept(n))
           /\ \A k \in Kept(n) :
                LET label == LabelOf(conf[k][1])
                    id == <<"s", "e", "c", "r", "e", "t", "-">> \o name \o <<"-">> \o label
                    value == conf[k][2]
                IN  \E j \in 1..Len(m), q \in 1..Len(constructs) :
                      /\ m[j][1] = conf[k][1]
                      /\ m[j][2].construct = id
                      /\ constructs[q].id = id
                      /\ IF value.list
                         THEN /\ m[j][2].from = "secrets_manager"
                              /\ m[j][2].field = value.elems[2]
                              /\ constructs[q].type = "secretsmanager.Secret"
                              /\ constructs[q].secret_name = value.elems[1]
                         ELSE /\ m[j][2].from = "ssm_parameter"
                              /\ constructs[q].type = "ssm.StringParameter"
                              /\ constructs[q].parameter_name =
                                   <<"/">> \o prefix \o <<"/">> \o name
                                     \o <<"/">> \o label
                              /\ constructs[q].string_value = value.str
  /\ (pc = "service" => Len(constructs) = Len(HandedSecrets))
  /\ (task_definition = load_config.taskDefinition =>
        \A a, b \in 1..Len(constructs) :
          a # b => constructs[a].id # constructs[b].id)

C22_Witness ==
  /\ pc = "service"
  /\ task_definition = load_config.taskDefinition
  /\ Len(added) = 3
  /\ Len(Configured(1)) = 22
  /\ Len(added[1].secrets) = 7
  /\ Len(added[2].secrets) = 5
  /\ Len(constructs) = 17
  /\ \E q \in 1..Len(constructs) :
       /\ constructs[q].id = <<"s", "e", "c", "r", "e", "t", "-", "m", "a", "i", "n", "-", "s", "e", "s", "s", "i", "o", "n", "-", "s", "e", "c", "r", "e", "t">>
       /\ constructs[q].parameter_name = <<"/", "-", "-", "/", "m", "a", "i", "n", "/", "s", "e", "s", "s", "i", "o", "n", "-", "s", "e", "c", "r", "e", "t">>
  /\ \E a, b \in 1..Len(constructs) :
       /\ constructs[a].id = <<"s", "e", "c", "r", "e", "t", "-", "m", "a", "i", "n", "-", "p", "g", "h", "o", "s", "t">>
       /\ constructs[b].id = <<"s", "e", "c", "r", "e", "t", "-", "c", "m", "s", "-", "p", "g", "h", "o", "s", "t">>

=============================================================================
